---- MODULE Spec2Model ----
(***************************************************************************)
(* SEO keyword research tool (src/app.py): keyword expansion through a     *)
(* lexical database, per-keyword metrics fetched from a search API, both   *)
(* memoised, and the script that chains them and renders the results.      *)
(***************************************************************************)
EXTENDS Integers, Sequences, FiniteSets, TLC

VARIABLES
    db,              \* the WordNet snapshot: seed -> list of senses, a sense is a list of lemma names
    now,             \* the clock, in ticks of 0.2 s
    kwCache,         \* st.cache_data store of generate_keywords: seed -> list
    mCache,          \* st.cache_data(ttl=3600) store of get_seo_metrics: <<keyword, api_key>> -> entry
    pc,              \* position of the script: idle, analyze, display, done, crashed
    seed_keyword,    \* text input of the current run
    api_key,         \* sidebar text input of the current run
    analysis_limit,  \* sidebar slider of the current run
    keywords,        \* result of generate_keywords in the current run
    results,         \* the list the analysis loop appends to
    rendered,        \* the widgets the display loop has drawn, in order
    invoked,         \* history: arguments of the get_seo_metrics calls of the current run
    calls,           \* history: every get_seo_metrics call (arguments, time, outcome, record)
    lookups,         \* history: number of wordnet.synsets lookups per seed
    expanded         \* history: the distinct lists generate_keywords returned per seed

vars == <<db, now, kwCache, mCache, pc, seed_keyword, api_key, analysis_limit,
          keywords, results, rendered, invoked, calls, lookups, expanded>>

-----------------------------------------------------------------------------
(* Bounds *)

MaxCalls == 2        \* get_seo_metrics calls recorded in one behaviour
MaxNow   == 18003    \* the environment advances the clock up to here

(* Program constants *)

TTL == 3600              \* seconds, @st.cache_data(ttl=3600)
TicksPerSecond == 5      \* one tick is the 0.2 s of time.sleep(0.2)
SliderMin == 1          \* st.slider("Keywords to analyze", 1, 20, 5): the lowest position
SliderDefault == 5      \* and the position the slider starts at
ProgressMax == 100

TtlTicks == TTL * TicksPerSecond
SleepTicks == 1

-----------------------------------------------------------------------------
(* Helpers *)

Range(f) == {f[j] : j \in DOMAIN f}

Min(a, b) == IF a < b THEN a ELSE b

RECURSIVE Concat(_)
Concat(ss) == IF ss = <<>> THEN <<>> ELSE Head(ss) \o Concat(Tail(ss))

\* every list that holds each element of S exactly once
Orders(S) == {f \in [1..Cardinality(S) -> S] : Range(f) = S}

(* Python values: a str or an int, a None, a list, a dict *)
PyStr(s) == [type |-> "str", s |-> s]
PyInt(n) == [type |-> "int", n |-> n]
PyNone == [type |-> "NoneType"]
PyList == [type |-> "list"]
PyDict(members) == [type |-> "dict", members |-> members]
NA == PyStr("N/A")

(* outcome of evaluating an expression: a value or a raised exception *)
Return(v) == [raised |-> FALSE, value |-> v]
Raise(msg) == [raised |-> TRUE, msg |-> msg]

-----------------------------------------------------------------------------
(* Inputs *)

Seeds == {"bank", "zzz"}                  \* seeds the lexical database knows about or not
SeedInputs == Seeds \cup {""}             \* what the text input can hold
KeyInputs == {"", "k1", "k2"}             \* what the SERPAPI key input can hold
LimitInputs == {SliderMin, SliderDefault} \* positions of the slider, within SliderMin..SliderMax

(* lemma names are strings, written as sequences of characters *)
Bank == <<"b">>
River_Bank == <<"r", "_", "b">>

\* the snapshot of the orchestration runs: two senses that share a lemma, and a seed with no sense
BankDb == [s \in Seeds |-> IF s = "bank" THEN << <<Bank>>, <<Bank, River_Bank>> >>
                                         ELSE << >>]

-----------------------------------------------------------------------------
(* generate_keywords *)

\* a replace that stops after the first occurrence, as str.replace(old, new, 1)
replaceFirst(str, old, new) ==
    [j \in 1..Len(str) |->
        IF str[j] = old /\ (\A i \in 1..(j - 1) : str[i] # old) THEN new ELSE str[j]]

\* str.replace(old, new) for single characters: every occurrence is replaced
replace(str, old, new) == [j \in 1..Len(str) |-> IF str[j] = old THEN new ELSE str[j]]

\* wordnet.synsets(seed_keyword)
synsets(seed) == db[seed]

\* a list of synonyms that also holds the seed itself
synonymsWithSeed(seed) ==
    Concat([s \in 1..Len(db[seed]) |->
              [l \in 1..Len(db[seed][s]) |-> replace(db[seed][s][l], "_", " ")]]) \o << <<seed>> >>

\* the list `synonyms` after the two loops
synonyms(seed) ==
    Concat([s \in 1..Len(synsets(seed)) |->
              [l \in 1..Len(synsets(seed)[s]) |-> replace(synsets(seed)[s][l], "_", " ")]])

\* list(set(synonyms)): the set's iteration order is not fixed, so every order is a possible return
generate_keywords(seed) == Orders(Range(synonyms(seed)))

\* a generate_keywords without its decorator: nothing is ever served from the store
KwCacheNever(seed) == FALSE

\* @st.cache_data without ttl: the key is the argument, an entry is served for ever
KwCacheHit(seed) == seed \in DOMAIN kwCache

\* a stored result is returned as it is, without running the body
CachedGenerateKeywords(seed) ==
    IF KwCacheHit(seed) THEN {kwCache[seed]} ELSE generate_keywords(seed)

-----------------------------------------------------------------------------
(* get_seo_metrics *)

\* what requests.get can come back with
NoRequest == [kind |-> "none"]
ConnectionError == [kind |-> "exception", msg |-> "ConnectionError"]
Timeout == [kind |-> "exception", msg |-> "ReadTimeout"]
Response(status, body) == [kind |-> "response", status_code |-> status, body |-> body]
NotJson == [valid |-> FALSE]
Json(v) == [valid |-> TRUE, json |-> v]

\* a status check that is left out
raise_for_status_skipped(response) == Return(PyNone)

\* Response.raise_for_status(): HTTPError for 4xx and 5xx, nothing otherwise
raise_for_status(response) ==
    IF 400 <= response.status_code /\ response.status_code < 500 THEN Raise("Client Error")
    ELSE IF 500 <= response.status_code /\ response.status_code < 600 THEN Raise("Server Error")
    ELSE Return(PyNone)

\* Response.json()
json(response) ==
    IF response.body.valid THEN Return(response.body.json)
    ELSE Raise("Expecting value: line 1 column 1 (char 0)")

\* a lookup that ignores the default, as obj[key]
getItem(obj, key, default) ==
    IF obj.type = "dict"
    THEN (IF key \in DOMAIN obj.members THEN Return(obj.members[key]) ELSE Raise("KeyError"))
    ELSE Raise("'" \o obj.type \o "' object is not subscriptable")

\* obj.get(key, default): a dict method; any other value has no attribute get
get(obj, key, default) ==
    IF obj.type = "dict"
    THEN Return(IF key \in DOMAIN obj.members THEN obj.members[key] ELSE default)
    ELSE Raise("'" \o obj.type \o "' object has no attribute 'get'")

\* an except branch that also fills the metrics fields
FailureRecordMixed(keyword, msg) ==
    [keyword |-> keyword, error |-> msg, success |-> FALSE,
     search_volume |-> NA, keyword_difficulty |-> NA]

\* the dict of the except branch
FailureRecord(keyword, msg) == [keyword |-> keyword, error |-> msg, success |-> FALSE]

\* the dict of the try branch
SuccessRecord(keyword, search_volume, keyword_difficulty) ==
    [keyword |-> keyword, search_volume |-> search_volume,
     keyword_difficulty |-> keyword_difficulty, success |-> TRUE]

\* the body of get_seo_metrics, given what requests.get comes back with
get_seo_metrics(keyword, key, net) ==
    IF net.kind = "exception" THEN FailureRecord(keyword, net.msg)
    ELSE
    LET status == raise_for_status(net) IN
    IF status.raised THEN FailureRecord(keyword, status.msg)
    ELSE
    LET data == json(net) IN
    IF data.raised THEN FailureRecord(keyword, data.msg)
    ELSE
    LET search_metadata == get(data.value, "search_metadata", PyDict(<<>>)) IN
    IF search_metadata.raised THEN FailureRecord(keyword, search_metadata.msg)
    ELSE
    LET search_volume == get(search_metadata.value, "total_results", NA) IN
    IF search_volume.raised THEN FailureRecord(keyword, search_volume.msg)
    ELSE
    LET keyword_difficulty == get(data.value, "keyword_difficulty", NA) IN
    IF keyword_difficulty.raised THEN FailureRecord(keyword, keyword_difficulty.msg)
    ELSE SuccessRecord(keyword, search_volume.value, keyword_difficulty.value)

\* a key that leaves the credential out
CacheKeyKeywordOnly(keyword, key) == <<keyword, "">>

\* @st.cache_data(ttl=3600): the key is the argument tuple
CacheKey(keyword, key) == <<keyword, key>>

\* an entry is served until ttl seconds after its insertion
Fresh(entry) == now < entry.inserted + TtlTicks

CacheHit(k) == k \in DOMAIN mCache /\ Fresh(mCache[k])

\* a store that keeps successes only
CacheStoreSuccessOnly(k, value) ==
    IF value.success
    THEN [x \in DOMAIN mCache \cup {k} |->
            IF x = k THEN [value |-> value, inserted |-> now] ELSE mCache[x]]
    ELSE mCache

\* whatever the function returned is stored, with the time of insertion
CacheStore(k, value) ==
    [x \in DOMAIN mCache \cup {k} |->
        IF x = k THEN [value |-> value, inserted |-> now] ELSE mCache[x]]

-----------------------------------------------------------------------------
(* display_metrics *)

\* int(x): the number itself, ValueError for the text "N/A", TypeError for the rest
int(x) ==
    IF x.type = "int" THEN Return(x.n)
    ELSE IF x.type = "str"
    THEN Raise("invalid literal for int() with base 10: '" \o x.s \o "'")
    ELSE Raise("int() argument must be a string, a bytes-like object or a real number")

\* metrics.get('keyword_difficulty', 0) on the record
difficulty_or_zero(metrics) ==
    IF "keyword_difficulty" \in DOMAIN metrics THEN metrics.keyword_difficulty ELSE PyInt(0)

\* st.progress(value): an int outside 0..100 is refused
progress(value) ==
    IF 0 <= value /\ value <= ProgressMax THEN Return(value)
    ELSE Raise("Progress Value has invalid value [0, 100]")

\* display_metrics(metrics): the widgets drawn, or the exception that ends the script run
\* (line 69 is read with the closing parenthesis of st.progress that the file lacks)
display_metrics(metrics) ==
    IF metrics.success
    THEN LET n == int(difficulty_or_zero(metrics)) IN
         IF n.raised THEN n
         ELSE LET bar == progress(Min(n.value, ProgressMax)) IN
              IF bar.raised THEN bar
              ELSE Return([expander |-> metrics.keyword,
                           volume |-> metrics.search_volume,
                           difficulty |-> metrics.keyword_difficulty,
                           progress |-> bar.value])
    ELSE Return([expander |-> metrics.keyword, error |-> metrics.error])

-----------------------------------------------------------------------------
(* The script *)

\* a loop over the whole list
SliceAll(list, limit) == list

\* keywords[:analysis_limit]
Slice(list, limit) == SubSeq(list, 1, Min(limit, Len(list)))

\* where the script goes after generate_keywords: the two warnings end the run
AfterGenerate(kws, key) ==
    IF kws = <<>> THEN "done"
    ELSE IF key = "" THEN "done"
    ELSE "analyze"

\* a user interaction reruns the script from the top (lines 77-106)
Submit(seed, key, limit) ==
    /\ pc \in {"idle", "done", "crashed"}
    /\ seed_keyword' = seed
    /\ api_key' = key
    /\ analysis_limit' = limit
    /\ results' = <<>>
    /\ rendered' = <<>>
    /\ invoked' = <<>>
    /\ IF seed = ""
       THEN /\ keywords' = <<>>
            /\ pc' = "done"
            /\ UNCHANGED <<kwCache, lookups, expanded>>
       ELSE \E kws \in CachedGenerateKeywords(seed) :
            /\ keywords' = kws
            /\ kwCache' = [x \in DOMAIN kwCache \cup {seed} |-> IF x = seed THEN kws ELSE kwCache[x]]
            /\ lookups' = [lookups EXCEPT ![seed] = IF KwCacheHit(seed) THEN @ ELSE @ + 1]
            /\ expanded' = [expanded EXCEPT ![seed] = @ \cup {kws}]
            /\ pc' = AfterGenerate(kws, key)
    /\ UNCHANGED <<db, now, mCache, calls>>

\* one iteration of the analysis loop (lines 107-116), and the loop's exit after the last one
Analyze(net) ==
    /\ pc = "analyze"
    /\ Cardinality(calls) < MaxCalls
    /\ LET todo == Slice(keywords, analysis_limit)
           keyword == todo[Len(results) + 1]
           k == CacheKey(keyword, api_key)
           hit == CacheHit(k)
           metrics == IF hit THEN mCache[k].value ELSE get_seo_metrics(keyword, api_key, net)
       IN /\ results' = Append(results, metrics)
          /\ mCache' = IF hit THEN mCache ELSE CacheStore(k, metrics)
          /\ invoked' = Append(invoked, <<keyword, api_key>>)
          /\ calls' = calls \cup {[keyword |-> keyword, api_key |-> api_key, t |-> now,
                                   net |-> IF hit THEN NoRequest ELSE net, ret |-> metrics]}
          /\ pc' = IF Len(results) + 1 = Len(todo) THEN "display" ELSE "analyze"
    /\ now' = now + SleepTicks
    /\ UNCHANGED <<db, kwCache, seed_keyword, api_key, analysis_limit, keywords, rendered,
                   lookups, expanded>>

\* one iteration of the display loop (lines 123-124); an exception ends the script run
Display ==
    /\ pc = "display"
    /\ LET out == display_metrics(results[Len(rendered) + 1])
       IN IF out.raised
          THEN /\ pc' = "crashed"
               /\ rendered' = rendered
          ELSE /\ rendered' = Append(rendered, out.value)
               /\ pc' = IF Len(rendered) + 1 = Len(results) THEN "done" ELSE "display"
    /\ UNCHANGED <<db, now, kwCache, mCache, seed_keyword, api_key, analysis_limit, keywords,
                   results, invoked, calls, lookups, expanded>>

\* time passes between two runs of the script
Tick(d) ==
    /\ pc \in {"idle", "done", "crashed"}
    /\ now + d <= MaxNow
    /\ now' = now + d
    /\ UNCHANGED <<db, kwCache, mCache, pc, seed_keyword, api_key, analysis_limit, keywords,
                   results, rendered, invoked, calls, lookups, expanded>>

\* the waits that decide a cache hit: one tick before the expiry, and the expiry itself
Delays == {TtlTicks - 2, TtlTicks - 1}

-----------------------------------------------------------------------------
(* What the endpoint can answer *)

Statuses == {200, 300, 401, 503}

Bodies ==
    {NotJson, Json(PyList), Json(PyNone)}
    \cup {Json(PyDict(m)) : m \in
            {<<>>,
             [x \in {"keyword_difficulty"} |-> PyInt(45)],
             [x \in {"search_metadata"} |-> PyNone],
             [x \in {"search_metadata"} |-> PyDict(<<>>)],
             [x \in {"search_metadata"} |-> PyDict([y \in {"total_results"} |-> PyInt(1200)])],
             [x \in {"search_metadata", "keyword_difficulty"} |->
                IF x = "search_metadata" THEN PyDict([y \in {"total_results"} |-> PyInt(1200)])
                ELSE PyInt(45)]}}

Outcomes == {ConnectionError, Timeout} \cup {Response(s, b) : s \in Statuses, b \in Bodies}

\* the answers of the orchestration runs: an outage, an answer without metrics, a full answer
CoreOutcomes ==
    {Timeout,
     Response(200, Json(PyDict(<<>>))),
     Response(200, Json(PyDict([x \in {"search_metadata", "keyword_difficulty"} |->
                IF x = "search_metadata" THEN PyDict([y \in {"total_results"} |-> PyInt(1200)])
                ELSE PyInt(45)])))}

-----------------------------------------------------------------------------
(* Specifications *)

InitWith(snapshot) ==
    /\ db = snapshot
    /\ now = 0
    /\ kwCache = <<>>
    /\ mCache = <<>>
    /\ pc = "idle"
    /\ seed_keyword = ""
    /\ api_key = ""
    /\ analysis_limit = SliderDefault
    /\ keywords = <<>>
    /\ results = <<>>
    /\ rendered = <<>>
    /\ invoked = <<>>
    /\ calls = {}
    /\ lookups = [s \in Seeds |-> 0]
    /\ expanded = [s \in Seeds |-> {}]

Init == InitWith(BankDb)

Next ==
    \/ \E seed \in SeedInputs, key \in KeyInputs, limit \in LimitInputs : Submit(seed, key, limit)
    \/ \E net \in CoreOutcomes : Analyze(net)
    \/ Display
    \/ \E d \in Delays : Tick(d)

Spec == Init /\ [][Next]_vars

(* get_seo_metrics against every answer of the endpoint *)

NextFetch ==
    \/ Submit("bank", "k1", SliderDefault)
    \/ \E net \in Outcomes : Analyze(net)
    \/ Display
    \/ \E d \in Delays : Tick(d)

SpecFetch == Init /\ [][NextFetch]_vars

(* generate_keywords against every snapshot of a small lexical database *)

Lemmas == {Bank, River_Bank, <<"d">>, <<"r", " ", "b">>, <<"_", "a", "_">>}
Senses == {<<l>> : l \in Lemmas} \cup {<<l, m>> : l, m \in Lemmas}
SenseLists == {<< >>} \cup {<<s>> : s \in Senses} \cup {<<s, u>> : s, u \in Senses}
Snapshots == {[s \in Seeds |-> IF s = "bank" THEN x ELSE << >>] : x \in SenseLists}

InitExpand == \E snapshot \in Snapshots : InitWith(snapshot)

NextExpand == \E seed \in SeedInputs : Submit(seed, "", SliderDefault)

SpecExpand == InitExpand /\ [][NextExpand]_vars

-----------------------------------------------------------------------------
(* Properties *)

Requested(c) == c.net.kind # "none"
SamePair(a, b) == a.keyword = b.keyword /\ a.api_key = b.api_key
\* b was made after a and less than 3600 seconds after it
InWindow(a, b) == a.t < b.t /\ b.t < a.t + TTL * TicksPerSecond

IsMetricsResult(r) == {"keyword", "success"} \subseteq DOMAIN r /\ r.success \in BOOLEAN

Is2xx(net) == 200 <= net.status_code /\ net.status_code <= 299
Members(net) == net.body.json.members
HasMetadata(net) == "search_metadata" \in DOMAIN Members(net)

\* the body is no JSON object, or its search_metadata is there and is no JSON object
UnexpectedShape(net) ==
    \/ net.body.json.type # "dict"
    \/ HasMetadata(net) /\ Members(net)["search_metadata"].type # "dict"

\* the outcomes in which a statement of the try block raises
Raises(net) ==
    \/ net.kind = "exception"
    \/ net.kind = "response" /\ (\/ net.status_code \in 400..599
                                 \/ ~net.body.valid
                                 \/ UnexpectedShape(net))

\* str(e) of the exception raised
ExceptionText(net) ==
    IF net.kind = "exception" THEN net.msg
    ELSE IF net.status_code \in 400..499 THEN "Client Error"
    ELSE IF net.status_code \in 500..599 THEN "Server Error"
    ELSE IF ~net.body.valid THEN "Expecting value: line 1 column 1 (char 0)"
    ELSE IF net.body.json.type = "list" THEN "'list' object has no attribute 'get'"
    ELSE "'NoneType' object has no attribute 'get'"

\* C1 as amended: get_seo_metrics never raises: every call returns a MetricsResult
\* record; every outcome in which the request, the status check (4xx and 5xx only),
\* the JSON parse or the field extraction raises is returned as the record with
\* success = false whose error is the exception's text; every other outcome, a status
\* below 400 outside 2xx included, is returned with success = true.
C1_NeverRaises ==
    \A c \in calls :
        /\ IsMetricsResult(c.ret)
        /\ c.ret.keyword = c.keyword
        /\ (Requested(c) /\ Raises(c.net)) =>
              c.ret = [keyword |-> c.keyword, error |-> ExceptionText(c.net), success |-> FALSE]
        /\ (Requested(c) /\ ~Raises(c.net)) => c.ret.success

\* C1 witness: an outage and a body of an unexpected shape were both absorbed into records
C1_Witness ==
    /\ \E c \in calls : c.net = Timeout /\ ~c.ret.success
    /\ \E c \in calls : c.net = Response(200, Json(PyList)) /\ ~c.ret.success

\* C1 as stated: every failure outcome of the outbound call (connection error, timeout,
\* non-2xx status, body that is not valid JSON, JSON of an unexpected shape) is returned
\* as a record with success = false.
C1_AsStated ==
    \A c \in calls :
        (Requested(c) /\ (\/ c.net.kind = "exception"
                           \/ ~Is2xx(c.net)
                           \/ ~c.net.body.valid
                           \/ UnexpectedShape(c.net)))
            => (IsMetricsResult(c.ret) /\ ~c.ret.success)

\* C2: every record get_seo_metrics returns or the metrics cache stores carries the
\* requested keyword and success, and exactly the fields of its group: search_volume and
\* keyword_difficulty when success is true, error when it is false.
WellFormed(r, keyword) ==
    /\ IsMetricsResult(r)
    /\ r.keyword = keyword
    /\ r.success => DOMAIN r = {"keyword", "success", "search_volume", "keyword_difficulty"}
    /\ ~r.success => DOMAIN r = {"keyword", "success", "error"}

C2_WellFormed ==
    /\ \A c \in calls : WellFormed(c.ret, c.keyword)
    /\ \A k \in DOMAIN mCache : WellFormed(mCache[k].value, k[1])
    /\ \A j \in 1..Len(results) : WellFormed(results[j], invoked[j][1])

\* C2 witness: a success record and a failure record were returned and are stored
C2_Witness ==
    /\ \E k \in DOMAIN mCache : mCache[k].value.success
    /\ \E k \in DOMAIN mCache : ~mCache[k].value.success
    /\ Cardinality(calls) = 2

\* C3: of two calls with the same (keyword, credential) the second of which is made less
\* than 3600 seconds after the first one's network call, the second returns the same
\* record and makes no network call; and a call is served from the cache only out of a
\* network call made with the same keyword and the same credential.
C3_CacheCoherence ==
    /\ \A a, b \in calls :
          (SamePair(a, b) /\ Requested(a) /\ InWindow(a, b)) =>
              (b.ret = a.ret /\ ~Requested(b))
    /\ \A b \in calls :
          ~Requested(b) =>
              \E a \in calls : SamePair(a, b) /\ Requested(a) /\ InWindow(a, b) /\ a.ret = b.ret

\* C3 witness: a second call with the same pair, made one tick before the expiry, was
\* served from the cache
C3_Witness ==
    \E a, b \in calls :
        /\ SamePair(a, b) /\ Requested(a) /\ ~Requested(b)
        /\ b.t = a.t + TtlTicks - 1
        /\ b.ret = a.ret

\* C4: after a call returned success = false, every further call with the same pair less
\* than 3600 seconds later returns that failure record and makes no network call, whatever
\* the endpoint would answer by then.
C4_FailuresCached ==
    \A a, b \in calls :
        (SamePair(a, b) /\ Requested(a) /\ ~a.ret.success /\ InWindow(a, b)) =>
            (~Requested(b) /\ ~b.ret.success /\ b.ret.error = a.ret.error)

\* C4 witness: a failure was replayed from the cache and is the entry still stored
C4_Witness ==
    \E a, b \in calls :
        /\ SamePair(a, b) /\ Requested(a) /\ ~a.ret.success /\ InWindow(a, b)
        /\ ~Requested(b)
        /\ mCache[CacheKey(a.keyword, a.api_key)].value = a.ret

\* the lemma names of all senses matching the seed
AllLemmas(seed) == UNION {Range(db[seed][n]) : n \in DOMAIN db[seed]}

\* v is the lemma name with every '_' replaced by a space
IsNormalOf(v, lemma) ==
    /\ Len(v) = Len(lemma)
    /\ \A j \in 1..Len(lemma) : v[j] = (IF lemma[j] = "_" THEN " " ELSE lemma[j])

\* C5: what generate_keywords returns holds no '_', holds no variant twice, holds the
\* normalised name of every lemma of every matching sense, and holds nothing else.
C5_ExactVariants ==
    \A seed \in Seeds : \A list \in expanded[seed] :
        /\ \A j \in 1..Len(list) : "_" \notin Range(list[j])
        /\ \A i, j \in 1..Len(list) : i # j => list[i] # list[j]
        /\ \A lemma \in AllLemmas(seed) : \E j \in 1..Len(list) : IsNormalOf(list[j], lemma)
        /\ \A j \in 1..Len(list) : \E lemma \in AllLemmas(seed) : IsNormalOf(list[j], lemma)

\* C5 witness: two senses that share a lemma, one lemma with separators: 3 variants out of
\* 4 lemma occurrences
C5_Witness ==
    /\ db["bank"] = << <<Bank, <<"d">> >>, <<Bank, <<"_", "a", "_">> >> >>
    /\ \E list \in expanded["bank"] : Len(list) = 3 /\ <<" ", "a", " ">> \in Range(list)

\* C6: every call of generate_keywords with the same seed returns the same list, the
\* lexical database is looked up at most once per seed whatever the credential, the
\* slider and the time of the later calls, and what is returned is the stored list.
C6_Idempotent ==
    \A seed \in Seeds :
        /\ Cardinality(expanded[seed]) <= 1
        /\ lookups[seed] <= 1
        /\ expanded[seed] # {} => (lookups[seed] = 1 /\ expanded[seed] = {kwCache[seed]})

\* C6 witness: a run for a seed that was expanded more than 3600 seconds ago, with another
\* credential, still with one lookup
C6_Witness ==
    /\ pc = "analyze" /\ results = <<>> /\ seed_keyword = "bank"
    /\ \E c \in calls : c.t + TtlTicks <= now /\ c.api_key # api_key
    /\ lookups["bank"] = 1
    /\ Cardinality(generate_keywords("bank")) > 1

\* C7: a run whose seed has no lexical entry ends without error with an empty keyword
\* list, no get_seo_metrics call and no network call, whatever the credential and the limit.
C7_NoResults ==
    (seed_keyword \in Seeds /\ synsets(seed_keyword) = << >>) =>
        /\ pc = "done"
        /\ keywords = << >>
        /\ invoked = << >>
        /\ results = << >>
        /\ \A c \in calls : c.keyword \in Range(kwCache["bank"])

\* C7 witness: such a run with a credential, after an analysis has filled the history
C7_Witness ==
    /\ seed_keyword = "zzz" /\ api_key = "k1" /\ analysis_limit = SliderMin
    /\ pc = "done"
    /\ calls # {}

\* C8: with n keywords, limit L and a credential, the analysis loop calls get_seo_metrics
\* for the first min(n, L) keywords, once each, in the list's order, and results holds the
\* records of these calls in that order.
C8_Truncation ==
    LET m == Min(Len(keywords), analysis_limit) IN
    /\ Len(results) = Len(invoked)
    /\ Len(invoked) <= m
    /\ \A j \in 1..Len(invoked) :
          /\ invoked[j] = <<keywords[j], api_key>>
          /\ results[j].keyword = keywords[j]
          /\ \E c \in calls : c.keyword = keywords[j] /\ c.api_key = api_key /\ c.ret = results[j]
    /\ pc = "analyze" => Len(invoked) < m
    /\ (pc \in {"display", "crashed"} \/ (pc = "done" /\ keywords # << >> /\ api_key # ""))
          => Len(invoked) = m

\* C8 witness: 2 keywords truncated to 1 call
C8_Witness ==
    /\ pc \in {"done", "crashed"}
    /\ Len(keywords) = 2 /\ analysis_limit = 1
    /\ Len(results) = 1 /\ results[1].keyword = keywords[1]

\* C9 as stated: the display loop renders every collected record, in order; rendering
\* one record never ends the script run before the records after it are rendered.
C9_RendersAll ==
    /\ pc # "crashed"
    /\ (pc = "done" /\ results # << >>) =>
          /\ Len(rendered) = Len(results)
          /\ \A j \in 1..Len(results) : rendered[j].expander = results[j].keyword

\* search_volume and keyword_difficulty as C10 expects them from a JSON object
ExpectedVolume(net) ==
    IF HasMetadata(net) /\ "total_results" \in DOMAIN Members(net)["search_metadata"].members
    THEN Members(net)["search_metadata"].members["total_results"]
    ELSE NA

ExpectedDifficulty(net) ==
    IF "keyword_difficulty" \in DOMAIN Members(net) THEN Members(net)["keyword_difficulty"] ELSE NA

\* C10 as amended: when the answer has a 2xx status and its body parses to a JSON
\* object whose search_metadata is absent or a JSON object, the record has success = true,
\* search_volume = search_metadata.total_results when present and "N/A" otherwise, and
\* keyword_difficulty = the top-level keyword_difficulty when present and "N/A" otherwise;
\* when the body parses to something that is no JSON object, or search_metadata is there
\* and is no JSON object (null), the record has success = false.
C10_MissingFields ==
    \A c \in calls :
        (Requested(c) /\ c.net.kind = "response" /\ Is2xx(c.net) /\ c.net.body.valid) =>
            IF UnexpectedShape(c.net)
            THEN ~c.ret.success
            ELSE /\ c.ret.success
                 /\ c.ret.search_volume = ExpectedVolume(c.net)
                 /\ c.ret.keyword_difficulty = ExpectedDifficulty(c.net)

\* C10 witness: a body without any of the fields gave a success record with both sentinels
C10_Witness ==
    \E c \in calls :
        /\ c.net = Response(200, Json(PyDict(<< >>)))
        /\ c.ret.success
        /\ c.ret.search_volume = NA /\ c.ret.keyword_difficulty = NA

\* C10 as stated: every 2xx answer with a parseable body gives success = true, for every
\* shape of the body.
C10_AsStated ==
    \A c \in calls :
        (Requested(c) /\ c.net.kind = "response" /\ Is2xx(c.net) /\ c.net.body.valid) =>
            c.ret.success

====
